---- MODULE Spec2Model ----
(***************************************************************************)
(* mkcollage: the grid layout calculator (layout.py), the sampler and the  *)
(* sampling policy (image_ops.py).  The functions are pure; each           *)
(* specification draws the arguments of one call in Init and applies the   *)
(* function in one action.                                                 *)
(*                                                                         *)
(* Python floats are IEEE-754 binary64 with round-to-nearest-even.  They   *)
(* are modelled bit-exactly: a float is a sign, a 53-bit significand held  *)
(* in two limbs (hi * 2^27 + lo) and a binary exponent.                    *)
(***************************************************************************)
EXTENDS Integers, Sequences, FiniteSets, TLC

VARIABLES
    fn,     \* the function being called
    pc,     \* "call" before the function has run, "return" after
    args,   \* its arguments
    ret     \* its return value (None before the return)

vars == <<fn, pc, args, ret>>

(***************************************************************************)
(* Bounds of the model.                                                    *)
(***************************************************************************)
MaxImages == 6
MaxColumns == 3
MaxRows == 2
MaxPadding == 2
\* canvas dimensions (size, width, height) are DimStep, 2 * DimStep, ...
DimStep == 7
MaxDimSteps == 3
\* Image counts of the auto grid: 1..MaxGridImages and
\* 2^52..2^52 + MaxGridOffset.
MaxGridImages == 40
MaxGridOffset == 3
\* sampler: length of the image list, and the requested count
MaxFiles == 10
MaxCount == 8
\* estimator: files sampled, and the largest ratio in hundredths
MaxSampled == 4
MaxRatio == 250
\* compositing: images on the canvas, and the title
MaxPasted == 3
MaxTextHeight == 2
MaxTitleBorder == 1

(***************************************************************************)
(* Python values.                                                          *)
(***************************************************************************)
\* Python's None for an optional integer argument.
None == -1

\* Truth value of an optional integer: `if x:` is false for None and for 0.
Truthy(x) == x # None /\ x # 0

Min(a, b) == IF a <= b THEN a ELSE b

Abs(n) == IF n < 0 THEN -n ELSE n

(***************************************************************************)
(* binary64 arithmetic.                                                    *)
(* A float is [s, hi, lo, e] with value s * (hi * 2^27 + lo) * 2^e; it is  *)
(* zero (hi = lo = 0) or normalised (2^25 <= hi < 2^26, lo < 2^27).        *)
(* The operations are functions: a function's arguments are evaluated      *)
(* once, before it is applied, as Python evaluates operands.               *)
(***************************************************************************)
Limb == 2^27

Float == [s : {-1, 1}, hi : Nat, lo : Nat, e : Int]

\* A two-limb natural and whether nonzero bits were dropped below it.
Limbs == [hi : Nat, lo : Nat, lost : BOOLEAN]

FZero == [s |-> 1, hi |-> 0, lo |-> 0, e |-> 0]

FIsZero(x) == x.hi = 0 /\ x.lo = 0

\* Number of significant bits of a natural number.
BitLen[n \in Nat] == IF n = 0 THEN 0 ELSE 1 + BitLen[n \div 2]

\* int -> float conversion; exact, an int of the model has at most 31 bits.
FromInt[n \in Int] ==
    IF n = 0 THEN FZero
    ELSE LET b == BitLen[Abs(n)]
         IN IF b <= 26
            THEN [s |-> IF n < 0 THEN -1 ELSE 1,
                  hi |-> Abs(n) * 2^(26 - b), lo |-> 0, e |-> b - 53]
            ELSE [s |-> IF n < 0 THEN -1 ELSE 1,
                  hi |-> Abs(n) \div 2^(b - 26),
                  lo |-> (Abs(n) % 2^(b - 26)) * 2^(53 - b),
                  e |-> b - 53]

\* A two-limb natural h * 2^27 + l with 0 < h < 2^26, scaled by 2^e, as a
\* float: shifted left until normalised.
NormLeft[h \in Nat, l \in Nat, e \in Int] ==
    IF h >= 2^25 THEN [s |-> 1, hi |-> h, lo |-> l, e |-> e]
    ELSE NormLeft[2 * h + (2 * l) \div Limb, (2 * l) % Limb, e - 1]

\* int -> float conversion of an integer 0 <= n < 2^53 written as the pair
\* <<h, l>> of its limbs, n = h * 2^27 + l; exact.
FromWide(n) == IF n[1] = 0 THEN FromInt[n[2]] ELSE NormLeft[n[1], n[2], 0]

\* (h1, l1) >= (h2, l2) as two-limb naturals.
PairGe(h1, l1, h2, l2) == h1 > h2 \/ (h1 = h2 /\ l1 >= l2)

\* Two-limb natural shifted right by d bits, and whether a one bit was lost.
ShiftRight[h \in Nat, l \in Nat, d \in Nat] ==
    IF d = 0 THEN [hi |-> h, lo |-> l, lost |-> FALSE]
    ELSE IF d < 27 THEN
        [hi |-> h \div 2^d,
         lo |-> (l \div 2^d) + (h % 2^d) * 2^(27 - d),
         lost |-> l % 2^d # 0]
    ELSE IF d < 58 THEN
        [hi |-> (h \div 2^(d - 27)) \div Limb,
         lo |-> (h \div 2^(d - 27)) % Limb,
         lost |-> l # 0 \/ h % 2^(d - 27) # 0]
    ELSE [hi |-> 0, lo |-> 0, lost |-> h # 0 \/ l # 0]

\* Round a 56-bit magnitude n.hi * 2^27 + n.lo (2^55 <= n < 2^56) scaled by
\* 2^e, with n.lost telling whether nonzero bits lie below it, to 53 bits,
\* ties to even.
Round56[s \in {-1, 1}, n \in Limbs, e \in Int] ==
    LET mh == n.hi \div 8
        ml == (n.lo \div 8) + (n.hi % 8) * 2^24
        roundBit == (n.lo \div 4) % 2
        st == n.lost \/ n.lo % 4 # 0
        up == roundBit = 1 /\ (st \/ ml % 2 = 1)
        ml1 == IF up THEN ml + 1 ELSE ml
        lo1 == ml1 % Limb
        hi1 == mh + ml1 \div Limb
    IN IF hi1 = 2^26
       THEN [s |-> s, hi |-> 2^25, lo |-> 0, e |-> e + 4]
       ELSE [s |-> s, hi |-> hi1, lo |-> lo1, e |-> e + 3]

\* Restoring long division: k more quotient bits of R / D, where R < 2 * D;
\* yields the quotient and whether the remainder is nonzero.
DivLoop[rh \in Nat, rl \in Nat, dh \in Nat, dl \in Nat, qh \in Nat, ql \in Nat, k \in Nat] ==
    IF k = 0 THEN [hi |-> qh, lo |-> ql, lost |-> rh # 0 \/ rl # 0]
    ELSE LET ge == PairGe(rh, rl, dh, dl)
             borrow == IF rl < dl THEN 1 ELSE 0
             sh == IF ge THEN rh - dh - borrow ELSE rh
             sl == IF ge THEN rl - dl + borrow * Limb ELSE rl
             q2 == 2 * ql + (IF ge THEN 1 ELSE 0)
         IN DivLoop[2 * sh + (2 * sl) \div Limb, (2 * sl) % Limb, dh, dl,
                    2 * qh + q2 \div Limb, q2 % Limb, k - 1]

\* x / y, correctly rounded (y nonzero).
FDiv[x \in Float, y \in Float] ==
    IF FIsZero(x) THEN FZero
    ELSE LET k == IF PairGe(x.hi, x.lo, y.hi, y.lo) THEN 56 ELSE 57
         IN Round56[x.s * y.s, DivLoop[x.hi, x.lo, y.hi, y.lo, 0, 0, k],
                    x.e - y.e - (k - 1)]

\* The sign of the rounding error Round56 makes on the magnitude n:
\* 1 when it rounds up, -1 when it rounds down, 0 when n is kept exactly.
RoundDir56[n \in Limbs] ==
    LET roundBit == (n.lo \div 4) % 2
        st == n.lost \/ n.lo % 4 # 0
        odd == (n.lo \div 8) % 2 = 1
    IN IF roundBit = 0 /\ ~st THEN 0
       ELSE IF roundBit = 1 /\ (st \/ odd) THEN 1
       ELSE -1

\* The sign of (x / y as a float) - (x / y exactly), for x, y > 0.
FDivDir[x \in Float, y \in Float] ==
    LET k == IF PairGe(x.hi, x.lo, y.hi, y.lo) THEN 56 ELSE 57
    IN RoundDir56[DivLoop[x.hi, x.lo, y.hi, y.lo, 0, 0, k]]

\* The four 14-bit limbs of a significand, least significant first.
Limbs14(x) ==
    <<x.lo % 2^14,
      (x.lo \div 2^14) + (x.hi % 2) * 2^13,
      (x.hi \div 2) % 2^14,
      x.hi \div 2^15>>

\* The product of two significands given by their 14-bit limbs, as eight
\* 14-bit limbs (and a zero limb above them).
MulLimbs[a \in Seq(Nat), b \in Seq(Nat)] ==
    LET B == 2^14
        c0 == a[1] * b[1]
        c1 == a[1] * b[2] + a[2] * b[1] + c0 \div B
        c2 == a[1] * b[3] + a[2] * b[2] + a[3] * b[1] + c1 \div B
        c3 == a[1] * b[4] + a[2] * b[3] + a[3] * b[2] + a[4] * b[1]
              + c2 \div B
        c4 == a[2] * b[4] + a[3] * b[3] + a[4] * b[2] + c3 \div B
        c5 == a[3] * b[4] + a[4] * b[3] + c4 \div B
        c6 == a[4] * b[4] + c5 \div B
    IN <<c0 % B, c1 % B, c2 % B, c3 % B, c4 % B, c5 % B, c6 % B,
         c6 \div B, 0>>

\* The top 56 bits of a 105- or 106-bit product d, and whether bits were lost.
MulTop[d \in Seq(Nat), r \in Nat] ==
    LET n == [j \in 1..4 |->
                 (d[3 + j] \div 2^r) + (d[4 + j] % 2^r) * 2^(14 - r)]
    IN [hi |-> (n[2] \div 2^13) + n[3] * 2 + n[4] * 2^15,
        lo |-> n[1] + (n[2] % 2^13) * 2^14,
        lost |-> d[1] # 0 \/ d[2] # 0 \/ d[3] # 0 \/ d[4] % 2^r # 0]

\* Round the product d: it has 106 bits when bit 105 (bit 7 of d[8]) is set.
MulRound[s \in {-1, 1}, d \in Seq(Nat), e \in Int] ==
    LET r == IF d[8] >= 2^7 THEN 8 ELSE 7
    IN Round56[s, MulTop[d, r], e + 42 + r]

\* x * y, correctly rounded.
FMul[x \in Float, y \in Float] ==
    IF FIsZero(x) \/ FIsZero(y) THEN FZero
    ELSE MulRound[x.s * y.s, MulLimbs[Limbs14(x), Limbs14(y)], x.e + y.e]

\* The sum t of two aligned 56-bit magnitudes, rounded.
AddRound[t \in Limbs, e \in Int] ==
    IF t.hi >= 2^29
    THEN LET h == ShiftRight[t.hi, t.lo, 1]
         IN Round56[1, [hi |-> h.hi, lo |-> h.lo, lost |-> t.lost \/ h.lost],
                    e + 1]
    ELSE Round56[1, t, e]

\* big + small for floats 0 < small <= big.
AddAligned[big \in Float, small \in Limbs] ==
    LET bh == big.hi * 8 + big.lo \div 2^24
        bl == (big.lo % 2^24) * 8
        tl == bl + small.lo
    IN AddRound[[hi |-> bh + small.hi + tl \div Limb, lo |-> tl % Limb,
                 lost |-> small.lost], big.e - 3]

\* x + y for x, y >= 0, correctly rounded.
FAdd[x \in Float, y \in Float] ==
    IF FIsZero(x) THEN y
    ELSE IF FIsZero(y) THEN x
    ELSE LET big == IF x.e >= y.e THEN x ELSE y
             small == IF x.e >= y.e THEN y ELSE x
         IN AddAligned[big, ShiftRight[small.hi * 8 + small.lo \div 2^24,
                                       (small.lo % 2^24) * 8,
                                       big.e - small.e]]

\* A nonzero two-limb magnitude shifted left until it has 56 bits, rounded.
Normalise[h \in Nat, l \in Nat, lost \in BOOLEAN, e \in Int] ==
    IF h >= 2^28
    THEN Round56[1, [hi |-> h, lo |-> l, lost |-> lost], e]
    ELSE Normalise[2 * h + (2 * l) \div Limb, (2 * l) % Limb, lost, e - 1]

\* big - small for floats 0 < small < big, small aligned to big's exponent.
\* Bits of small lost in the alignment borrow one unit and stay lost.
SubAligned[big \in Float, small \in Limbs] ==
    LET bh == big.hi * 8 + big.lo \div 2^24
        bl == (big.lo % 2^24) * 8
        sl == small.lo + (IF small.lost THEN 1 ELSE 0)
        borrow == IF bl < sl THEN 1 ELSE 0
    IN Normalise[bh - small.hi - borrow, bl - sl + borrow * Limb,
                 small.lost, big.e - 3]

\* abs(x - y) for x, y >= 0, correctly rounded.
FAbsDiff[x \in Float, y \in Float] ==
    IF x.hi = y.hi /\ x.lo = y.lo /\ (FIsZero(x) \/ x.e = y.e) THEN FZero
    ELSE IF FIsZero(x) THEN y
    ELSE IF FIsZero(y) THEN x
    ELSE LET xbig == x.e > y.e
                     \/ (x.e = y.e /\ PairGe(x.hi, x.lo, y.hi, y.lo))
             big == IF xbig THEN x ELSE y
             small == IF xbig THEN y ELSE x
         IN SubAligned[big, ShiftRight[small.hi * 8 + small.lo \div 2^24,
                                       (small.lo % 2^24) * 8,
                                       big.e - small.e]]

\* x < y for x, y >= 0.
FLess[x \in Float, y \in Float] ==
    IF FIsZero(y) THEN FALSE
    ELSE IF FIsZero(x) THEN TRUE
    ELSE x.e < y.e
         \/ (x.e = y.e /\ ~PairGe(x.hi, x.lo, y.hi, y.lo))

\* int(x): truncation toward zero (|x| < 2^27).
FTrunc[x \in Float] ==
    IF FIsZero(x) THEN 0
    ELSE x.s * ShiftRight[x.hi, x.lo, -x.e].lo

\* The ceiling of a truncated magnitude t with sign s.
CeilOf[s \in {-1, 1}, t \in Limbs] ==
    IF s = 1 /\ t.lost THEN t.lo + 1 ELSE s * t.lo

\* math.ceil(x) (|x| < 2^27).
FCeil[x \in Float] ==
    IF FIsZero(x) THEN 0
    ELSE CeilOf[x.s, ShiftRight[x.hi, x.lo, -x.e]]

\* Bits 2k + 1 and 2k of the 54-bit natural h * 2^27 + l.
SqrtPair(h, l, k) ==
    IF k <= 12 THEN (l \div 4^k) % 4
    ELSE IF k = 13 THEN (h % 2) * 2 + l \div 2^26
    ELSE (h \div 2^(2 * k - 27)) % 4

\* Digit-by-digit square root of the 112-bit natural (h * 2^27 + l) * 2^58:
\* root q and remainder r after the i leading pairs of bits; yields the
\* 56-bit root and whether the remainder is nonzero.
SqrtLoop[rh \in Nat, rl \in Nat, qh \in Nat, ql \in Nat, h \in Nat, l \in Nat, i \in Nat] ==
    IF i = 56 THEN [hi |-> qh, lo |-> ql, lost |-> rh # 0 \/ rl # 0]
    ELSE LET pair == IF i <= 26 THEN SqrtPair(h, l, 26 - i) ELSE 0
             r4l == 4 * rl + pair
             nh == 4 * rh + r4l \div Limb
             nl == r4l % Limb
             t4l == 4 * ql + 1
             th == 4 * qh + t4l \div Limb
             tl == t4l % Limb
             ge == PairGe(nh, nl, th, tl)
             borrow == IF nl < tl THEN 1 ELSE 0
             sh == IF ge THEN nh - th - borrow ELSE nh
             sl == IF ge THEN nl - tl + borrow * Limb ELSE nl
             q2 == 2 * ql + (IF ge THEN 1 ELSE 0)
         IN SqrtLoop[sh, sl, 2 * qh + q2 \div Limb, q2 % Limb, h, l, i + 1]

\* math.sqrt(x) for x >= 0, correctly rounded: the significand is doubled
\* when that makes the exponent even.
FSqrt[x \in Float] ==
    IF FIsZero(x) THEN FZero
    ELSE LET d == x.e % 2
             h == IF d = 1 THEN 2 * x.hi + (2 * x.lo) \div Limb ELSE x.hi
             l == IF d = 1 THEN (2 * x.lo) % Limb ELSE x.lo
         IN Round56[1, SqrtLoop[0, 0, 0, 0, h, l, 0], (x.e - d - 58) \div 2]

\* The float of the rational p / q, e.g. <<133, 100>> for 1.33.
FloatOf(r) == FDiv[FromInt[r[1]], FromInt[r[2]]]

(***************************************************************************)
(* layout.py: calculate_grid_layout                                        *)
(***************************************************************************)
\* size defaults to 1920.
DefaultSize == 1920

\* Step 1 without columns, for num_images given as the float x:
\* cols = math.ceil(math.sqrt(num_images)), rows = math.ceil(num_images / cols)
GridGuess(x) ==
    LET cols == FCeil[FSqrt[x]]
    IN [cols |-> cols, rows |-> FCeil[FDiv[x, FromInt[cols]]]]

\* math.ceil(math.sqrt(n)) for an integer n >= 1.
CeilSqrt(n) == GridGuess(FromInt[n]).cols

\* math.ceil(a / b) for integers a, b: a float division, then the ceiling.
CeilDiv(a, b) == FCeil[FDiv[FromInt[a], FromInt[b]]]

\* GridShape with the row count rounded down instead of up.
GridShapeFloor(num_images, columns, max_rows) ==
    IF Truthy(columns)
    THEN [cols |-> columns,
          rows |-> IF Truthy(max_rows)
                   THEN Min(max_rows, num_images \div columns)
                   ELSE num_images \div columns]
    ELSE LET cols == CeilSqrt(num_images)
         IN [cols |-> cols, rows |-> num_images \div cols]

\* Step 1: grid dimensions (cols x rows).
GridShape(num_images, columns, max_rows) ==
    IF Truthy(columns)
    THEN [cols |-> columns,
          rows |-> IF Truthy(max_rows)
                   THEN Min(max_rows, CeilDiv(num_images, columns))
                   ELSE CeilDiv(num_images, columns)]
    ELSE GridGuess(FromInt[num_images])

\* (cols / rows) * aspect_ratio
GridAspectRatio(cols, rows, ar) == FMul[FDiv[FromInt[cols], FromInt[rows]], ar]

\* AdjustGrid without the elif branch: only a landscape ratio swaps.
AdjustGridLandscapeOnly(cols, rows, ar) ==
    IF FLess[FromInt[1], GridAspectRatio(cols, rows, ar)] /\ cols < rows
    THEN [cols |-> rows, rows |-> cols]
    ELSE [cols |-> cols, rows |-> rows]

\* The auto branch's reshaping: swap cols and rows when the grid's aspect
\* ratio and its orientation disagree.
AdjustGrid(cols, rows, ar) ==
    LET grid_aspect_ratio == GridAspectRatio(cols, rows, ar)
        one == FromInt[1]
    IN IF FLess[one, grid_aspect_ratio] /\ cols < rows
       THEN [cols |-> rows, rows |-> cols]
       ELSE IF FLess[grid_aspect_ratio, one] /\ cols > rows
       THEN [cols |-> rows, rows |-> cols]
       ELSE [cols |-> cols, rows |-> rows]

\* AutoCanvas with the test on the grid's aspect ratio inverted.
AutoCanvasInverted(cols, rows, ar, size) ==
    LET grid_aspect_ratio == GridAspectRatio(cols, rows, ar)
    IN IF FLess[grid_aspect_ratio, FromInt[1]]
       THEN [canvas_width |-> size,
             canvas_height |-> FTrunc[FDiv[FromInt[size], grid_aspect_ratio]]]
       ELSE [canvas_width |-> FTrunc[FMul[FromInt[size], grid_aspect_ratio]],
             canvas_height |-> size]

\* Canvas of the auto branch without explicit columns: from size and the
\* grid's aspect ratio.
AutoCanvas(cols, rows, ar, size) ==
    LET grid_aspect_ratio == GridAspectRatio(cols, rows, ar)
    IN IF ~FLess[grid_aspect_ratio, FromInt[1]]
       THEN [canvas_width |-> size,
             canvas_height |-> FTrunc[FDiv[FromInt[size], grid_aspect_ratio]]]
       ELSE [canvas_width |-> FTrunc[FMul[FromInt[size], grid_aspect_ratio]],
             canvas_height |-> size]

\* Canvas of the auto branch with explicit columns: from size and the image
\* aspect ratio alone.
ColumnsCanvas(ar, size) ==
    IF ~FLess[ar, FromInt[1]]
    THEN [canvas_width |-> size,
          canvas_height |-> FTrunc[FDiv[FromInt[size], ar]]]
    ELSE [canvas_width |-> FTrunc[FMul[FromInt[size], ar]],
          canvas_height |-> size]

\* CellWidth forgetting the padding gaps.
CellWidthNoPadding(canvas_width, cols, padding) == canvas_width \div cols

\* cell_width = (canvas_width - (cols + 1) * padding) // cols
CellWidth(canvas_width, cols, padding) ==
    (canvas_width - (cols + 1) * padding) \div cols

\* cell_height = int(cell_width / aspect_ratio)
CellHeight(cell_width, ar) == FTrunc[FDiv[FromInt[cell_width], ar]]

\* GridHeight counting only the gaps between the rows.
GridHeightInnerGaps(rows, cell_height, padding) ==
    rows * cell_height + (rows - 1) * padding

\* rows * cell_height + (rows + 1) * padding
GridHeight(rows, cell_height, padding) ==
    rows * cell_height + (rows + 1) * padding

\* SizeCanvas reshaping the grid even when columns was given.
SizeCanvasAlwaysAdjust(grid, ar, size, columns) ==
    LET g == AdjustGrid(grid.cols, grid.rows, ar)
        c == AutoCanvas(g.cols, g.rows, ar, size)
    IN [cols |-> g.cols, rows |-> g.rows,
        canvas_width |-> c.canvas_width,
        canvas_height |-> c.canvas_height]

\* Step 2 when neither width nor height is given: the canvas from size,
\* after reshaping the grid unless columns was given.
SizeCanvas(grid, ar, size, columns) ==
    IF ~Truthy(columns)
    THEN LET g == AdjustGrid(grid.cols, grid.rows, ar)
             c == AutoCanvas(g.cols, g.rows, ar, size)
         IN [cols |-> g.cols, rows |-> g.rows,
             canvas_width |-> c.canvas_width,
             canvas_height |-> c.canvas_height]
    ELSE LET c == ColumnsCanvas(ar, size)
         IN [cols |-> grid.cols, rows |-> grid.rows,
             canvas_width |-> c.canvas_width,
             canvas_height |-> c.canvas_height]

\* Height-only branch: cell_height = (canvas_height - (rows + 1) * padding) // rows
CellHeightFromHeight(height, rows, padding) ==
    (height - (rows + 1) * padding) \div rows

\* CellWidthFromHeight rounding the product up instead of truncating it.
CellWidthFromHeightCeil(cell_height, ar) ==
    FCeil[FMul[FromInt[cell_height], ar]]

\* Height-only branch: cell_width = int(cell_height * aspect_ratio)
CellWidthFromHeight(cell_height, ar) ==
    FTrunc[FMul[FromInt[cell_height], ar]]

\* Step 2: initial canvas dimensions, and the grid after the reshaping.
InitialCanvas(grid, ar, padding, size, width, height, columns) ==
    IF Truthy(width) /\ Truthy(height)
    THEN [cols |-> grid.cols, rows |-> grid.rows,
          canvas_width |-> width, canvas_height |-> height]
    ELSE IF Truthy(width)
    THEN LET cell_width == CellWidth(width, grid.cols, padding)
             cell_height == CellHeight(cell_width, ar)
         IN [cols |-> grid.cols, rows |-> grid.rows,
             canvas_width |-> width,
             canvas_height |-> GridHeight(grid.rows, cell_height, padding)]
    ELSE IF Truthy(height)
    THEN LET cell_height == CellHeightFromHeight(height, grid.rows, padding)
             cell_width == CellWidthFromHeight(cell_height, ar)
         IN [cols |-> grid.cols, rows |-> grid.rows,
             canvas_width |-> grid.cols * cell_width
                              + (grid.cols + 1) * padding,
             canvas_height |-> height]
    ELSE SizeCanvas(grid, ar, size, columns)

\* FinalCanvasHeight without step 4: the height of step 2 is kept.
FinalCanvasHeightKept(canvas_height, rows, cell_height, padding, height) ==
    canvas_height

\* FinalCanvasHeight with step 4 applied even to a given height.
FinalCanvasHeightAlways(canvas_height, rows, cell_height, padding, height) ==
    GridHeight(rows, cell_height, padding)

\* Step 4: the canvas height fits the grid exactly unless height was given.
FinalCanvasHeight(canvas_height, rows, cell_height, padding, height) ==
    IF ~Truthy(height)
    THEN GridHeight(rows, cell_height, padding)
    ELSE canvas_height

\* Steps 3 to 5 and the returned GridLayout.
FinishLayout(c, ar, padding, height) ==
    LET cell_width == CellWidth(c.canvas_width, c.cols, padding)
        cell_height == CellHeight(cell_width, ar)
    IN [canvas_width |-> c.canvas_width,
        canvas_height |-> FinalCanvasHeight(c.canvas_height, c.rows,
                                            cell_height, padding, height),
        cols |-> c.cols,
        rows |-> c.rows,
        cell_width |-> cell_width,
        cell_height |-> cell_height,
        padding |-> padding,
        offset_x |-> 0,
        offset_y |-> 0]

calculate_grid_layout(num_images, aspect_ratio, padding, size, width, height, columns, max_rows) ==
    LET size1 == IF size = None THEN DefaultSize ELSE size
        ar == FloatOf(aspect_ratio)
        grid == GridShape(num_images, columns, max_rows)
        canvas == InitialCanvas(grid, ar, padding, size1, width, height,
                                columns)
    IN FinishLayout(canvas, ar, padding, height)

(***************************************************************************)
(* Calls of calculate_grid_layout.                                         *)
(***************************************************************************)
\* Aspect ratios as rationals <<p, q>>; the argument is the float p / q.
AspectRatios == {<<1, 2>>, <<3, 5>>, <<1, 1>>, <<133, 100>>, <<3, 2>>}

Dims == {DimStep * k : k \in 1..MaxDimSteps}

OptDims == {None} \cup Dims

\* The example of the specification: 10 images, size 1000, padding 10, 3:2.
ExampleArgs ==
    [num_images |-> 10, aspect_ratio |-> <<3, 2>>, padding |-> 10,
     size |-> 1000, width |-> None, height |-> None,
     columns |-> None, max_rows |-> None]

\* size is only read when neither width nor height is given.
LayoutArgs ==
    {a \in [num_images : 1..MaxImages,
            aspect_ratio : AspectRatios,
            padding : 0..MaxPadding,
            size : OptDims,
            width : OptDims,
            height : OptDims,
            columns : {None} \cup 1..MaxColumns,
            max_rows : {None} \cup 1..MaxRows] :
        (a.width # None \/ a.height # None) => a.size \in {None, DimStep}}
    \cup {ExampleArgs}

InitLayout ==
    /\ fn = "calculate_grid_layout"
    /\ pc = "call"
    /\ args \in LayoutArgs
    /\ ret = None

CalculateGridLayout ==
    /\ fn = "calculate_grid_layout"
    /\ pc = "call"
    /\ ret' = calculate_grid_layout(args.num_images, args.aspect_ratio,
                                    args.padding, args.size, args.width,
                                    args.height, args.columns, args.max_rows)
    /\ pc' = "return"
    /\ UNCHANGED <<fn, args>>

NextLayout == CalculateGridLayout

SpecLayout == InitLayout /\ [][NextLayout]_vars

(***************************************************************************)
(* The auto branch of calculate_grid_layout (no columns, width or height)  *)
(* step by step: the grid guessed in step 1, then the reshaping of step 2  *)
(* with the grid aspect ratio recomputed after it.                         *)
(***************************************************************************)
\* num_images is written as the pair <<h, l>> of its limbs, h * 2^27 + l.
GridCounts ==
    {<<0, n>> : n \in 1..MaxGridImages}
    \cup {<<2^25, d>> : d \in 0..MaxGridOffset}

AutoGridArgs == [num_images : GridCounts, aspect_ratio : AspectRatios]

InitAutoGrid ==
    /\ fn = "auto_grid"
    /\ pc = "call"
    /\ args \in AutoGridArgs
    /\ ret = None

\* cols = ceil(sqrt(num_images)), rows = ceil(num_images / cols)
GuessGrid ==
    /\ fn = "auto_grid"
    /\ pc = "call"
    /\ ret' = GridGuess(FromWide(args.num_images))
    /\ pc' = "guess"
    /\ UNCHANGED <<fn, args>>

\* The swap of cols and rows, then grid_aspect_ratio computed again.
AdjustGuess ==
    /\ fn = "auto_grid"
    /\ pc = "guess"
    /\ \E g \in {AdjustGrid(ret.cols, ret.rows, FloatOf(args.aspect_ratio))} :
           ret' = [cols |-> g.cols,
                   rows |-> g.rows,
                   grid_aspect_ratio |->
                       GridAspectRatio(g.cols, g.rows,
                                       FloatOf(args.aspect_ratio))]
    /\ pc' = "adjusted"
    /\ UNCHANGED <<fn, args>>

NextAutoGrid == GuessGrid \/ AdjustGuess

SpecAutoGrid == InitAutoGrid /\ [][NextAutoGrid]_vars

(***************************************************************************)
(* image_ops.py: sample_images, apply_image_sampling                       *)
(***************************************************************************)
\* Python's image_files[i] (0-based) and image_files[-1].
At(image_files, i) == image_files[i + 1]

\* Last off by one: image_files[-2].
LastButOne(image_files) == image_files[Len(image_files) - 1]

Last(image_files) == image_files[Len(image_files)]

\* MiddleIndex a whole step ahead instead of half a step.
MiddleIndexFullStep(i, step) ==
    FTrunc[FAdd[FAdd[FromInt[1], FMul[FromInt[i], step]], step]]

\* idx = int(1 + i * step + step / 2)
MiddleIndex(i, step) ==
    FTrunc[FAdd[FAdd[FromInt[1], FMul[FromInt[i], step]],
                FDiv[step, FromInt[2]]]]

\* KeepIndex with the clamp one too tight.
KeepIndexTight(idx, image_files) == idx < Len(image_files) - 2

\* An index is kept when it lies before the last one.
KeepIndex(idx, image_files) == idx < Len(image_files) - 1

RECURSIVE MiddleSamples(_, _, _, _, _)
\* for i in range(remaining_slots), from i on: append the kept indices.
MiddleSamples(image_files, step, remaining_slots, i, sampled) ==
    IF i >= remaining_slots THEN sampled
    ELSE LET idx == MiddleIndex(i, step)
         IN MiddleSamples(image_files, step, remaining_slots, i + 1,
                IF KeepIndex(idx, image_files)
                THEN Append(sampled, At(image_files, idx))
                ELSE sampled)

\* The list after the middle samples were appended to [image_files[0]].
SampledMiddle(image_files, max_count) ==
    IF max_count > 2
    THEN LET remaining_slots == max_count - 2
             total_middle == Len(image_files) - 2
             step == FDiv[FromInt[total_middle], FromInt[remaining_slots]]
         IN MiddleSamples(image_files, step, remaining_slots, 0,
                          <<At(image_files, 0)>>)
    ELSE <<At(image_files, 0)>>

\* sample_images without the no-op return for a list within the cap.
sample_images_unguarded(image_files, max_count) ==
    IF Len(image_files) = 0 THEN image_files
    ELSE IF max_count < 2 THEN SubSeq(image_files, 1, max_count)
    ELSE Append(SampledMiddle(image_files, max_count), Last(image_files))

\* sample_images without the early return for max_count < 2.
sample_images_no_degenerate(image_files, max_count) ==
    IF Len(image_files) <= max_count THEN image_files
    ELSE Append(SampledMiddle(image_files, max_count), Last(image_files))

sample_images(image_files, max_count) ==
    IF Len(image_files) <= max_count THEN image_files
    ELSE IF max_count < 2 THEN SubSeq(image_files, 1, max_count)
    ELSE Append(SampledMiddle(image_files, max_count), Last(image_files))

\* apply_image_sampling sampling already when the list just fills the grid.
apply_image_sampling_ge(image_files, columns, max_rows) ==
    IF Truthy(max_rows) /\ Truthy(columns)
       /\ Len(image_files) >= columns * max_rows
    THEN [image_files |-> sample_images(image_files, columns * max_rows),
          is_sampled |-> TRUE,
          total_count |-> Len(image_files)]
    ELSE [image_files |-> image_files,
          is_sampled |-> FALSE,
          total_count |-> Len(image_files)]

\* apply_image_sampling keeping one image more than the grid holds.
apply_image_sampling_one_more(image_files, columns, max_rows) ==
    IF Truthy(max_rows) /\ Truthy(columns)
       /\ Len(image_files) > columns * max_rows + 1
    THEN [image_files |-> sample_images(image_files, columns * max_rows + 1),
          is_sampled |-> TRUE,
          total_count |-> Len(image_files)]
    ELSE [image_files |-> image_files,
          is_sampled |-> FALSE,
          total_count |-> Len(image_files)]

\* Returns (image_files, is_sampled, total_image_count).
apply_image_sampling(image_files, columns, max_rows) ==
    IF Truthy(max_rows) /\ Truthy(columns)
       /\ Len(image_files) > columns * max_rows
    THEN [image_files |-> sample_images(image_files, columns * max_rows),
          is_sampled |-> TRUE,
          total_count |-> Len(image_files)]
    ELSE [image_files |-> image_files,
          is_sampled |-> FALSE,
          total_count |-> Len(image_files)]

(***************************************************************************)
(* Calls of sample_images and apply_image_sampling.                        *)
(***************************************************************************)
\* get_image_files returns distinct paths in sorted order; the i-th path
\* (0-based) is named 100 + i.
ImageFiles(n) == [i \in 1..n |-> 99 + i]

FileLists == {ImageFiles(n) : n \in 0..MaxFiles}

InitSample ==
    /\ pc = "call"
    /\ ret = None
    /\ \/ /\ fn = "sample_images"
          /\ args \in [image_files : FileLists, max_count : 0..MaxCount]
       \/ /\ fn = "apply_image_sampling"
          /\ args \in [image_files : FileLists,
                       columns : {None} \cup 1..MaxColumns,
                       max_rows : {None} \cup 1..MaxRows]

SampleImages ==
    /\ fn = "sample_images"
    /\ pc = "call"
    /\ ret' = sample_images(args.image_files, args.max_count)
    /\ pc' = "return"
    /\ UNCHANGED <<fn, args>>

ApplyImageSampling ==
    /\ fn = "apply_image_sampling"
    /\ pc = "call"
    /\ ret' = apply_image_sampling(args.image_files, args.columns,
                                   args.max_rows)
    /\ pc' = "return"
    /\ UNCHANGED <<fn, args>>

NextSample == SampleImages \/ ApplyImageSampling

SpecSample == InitSample /\ [][NextSample]_vars

(***************************************************************************)
(* image_ops.py: determine_common_aspect_ratio                             *)
(***************************************************************************)
\* An image file is None when it cannot be decoded; otherwise it is the
\* number k of hundredths for which round(width / height, 2) is the float
\* nearest to k / 100.
Ratio(k) == <<k, 100>>

\* round(img.width / img.height, 2) in hundredths for an image of size
\* <<w, h>>, w, h >= 1: the hundredth nearest the float w / h.  The float
\* lies on the side of a halfway point where the exact quotient lies; when
\* the quotient is a halfway point itself, on the side where the division
\* rounded it, and Python rounds a float that is exactly halfway to the
\* even hundredth.
RoundedRatio(img) ==
    LET k == (100 * img[1]) \div img[2]
        twice == 2 * ((100 * img[1]) % img[2])
        dir == FDivDir[FromInt[img[1]], FromInt[img[2]]]
    IN IF twice < img[2] THEN k
       ELSE IF twice > img[2] THEN k + 1
       ELSE IF dir > 0 THEN k + 1
       ELSE IF dir < 0 THEN k
       ELSE IF k % 2 = 0 THEN k ELSE k + 1

\* aspect_ratios: the rounded ratios of the files that decode, in order.
DecodedRatios(sampled_files) == SelectSeq(sampled_files, LAMBDA f : f # None)

\* Counter(aspect_ratios)[k]
Count(aspect_ratios, k) ==
    Cardinality({i \in 1..Len(aspect_ratios) : aspect_ratios[i] = k})

\* MostCommon preferring the ratio met last among the most frequent.
MostCommonLast(aspect_ratios) ==
    LET n == Len(aspect_ratios)
        i == CHOOSE i \in 1..n :
                 \A j \in 1..n :
                     /\ Count(aspect_ratios, aspect_ratios[j])
                            <= Count(aspect_ratios, aspect_ratios[i])
                     /\ j > i => Count(aspect_ratios, aspect_ratios[j])
                                     < Count(aspect_ratios, aspect_ratios[i])
                                 \/ aspect_ratios[j] = aspect_ratios[i]
    IN aspect_ratios[i]

\* counter.most_common(1)[0][0]: the first key, in order of first
\* appearance, with the largest count.
MostCommon(aspect_ratios) ==
    LET n == Len(aspect_ratios)
        i == CHOOSE i \in 1..n :
                 /\ \A j \in 1..n : Count(aspect_ratios, aspect_ratios[j])
                                        <= Count(aspect_ratios, aspect_ratios[i])
                 /\ \A j \in 1..(i - 1) :
                        Count(aspect_ratios, aspect_ratios[j])
                            < Count(aspect_ratios, aspect_ratios[i])
    IN aspect_ratios[i]

\* common_ratios, in the order of the dict: key in hundredths, then the pair.
CommonRatios ==
    <<[key |-> 133, pair |-> <<4, 3>>],
      [key |-> 178, pair |-> <<16, 9>>],
      [key |-> 177, pair |-> <<16, 9>>],
      [key |-> 160, pair |-> <<16, 10>>],
      [key |-> 150, pair |-> <<3, 2>>],
      [key |-> 100, pair |-> <<1, 1>>],
      [key |-> 75, pair |-> <<3, 4>>],
      [key |-> 67, pair |-> <<2, 3>>],
      [key |-> 56, pair |-> <<9, 16>>]>>

\* abs(x - most_common_ratio) for every key x of common_ratios, as a list
\* whose elements are computed once.
KeyDistances[most_common_ratio \in Nat] ==
    [i \in 1..Len(CommonRatios) |->
        FAbsDiff[FloatOf(Ratio(CommonRatios[i].key)),
                 FloatOf(Ratio(most_common_ratio))]] \o << >>

\* min(keys, key = distance): the first key with the least distance.
FirstLeast[d \in Seq(Float)] ==
    CHOOSE i \in 1..Len(d) :
        /\ \A j \in 1..Len(d) : ~FLess[d[j], d[i]]
        /\ \A j \in 1..(i - 1) : FLess[d[i], d[j]]

\* The standard pair of the closest key when it is closer than 0.1, else
\* (most_common_ratio, 1.0); every number is written as a rational.
SimpleRatio[d \in Seq(Float), closest \in Nat, most_common_ratio \in Nat] ==
    IF FLess[d[closest], FloatOf(<<1, 10>>)]
    THEN [width_ratio |-> <<CommonRatios[closest].pair[1], 1>>,
          height_ratio |-> <<CommonRatios[closest].pair[2], 1>>,
          most_common_ratio |-> Ratio(most_common_ratio)]
    ELSE [width_ratio |-> Ratio(most_common_ratio),
          height_ratio |-> <<1, 1>>,
          most_common_ratio |-> Ratio(most_common_ratio)]

\* The value returned for a non-empty list of ratios.
CommonAspectRatio[most_common_ratio \in Nat] ==
    SimpleRatio[KeyDistances[most_common_ratio],
                FirstLeast[KeyDistances[most_common_ratio]],
                most_common_ratio]

\* Returns (width_ratio, height_ratio, most_common_ratio), or exits with
\* status 1 when no file decodes.
determine_common_aspect_ratio(sampled_files) ==
    IF Len(DecodedRatios(sampled_files)) = 0
    THEN [exit |-> 1]
    ELSE CommonAspectRatio[MostCommon(DecodedRatios(sampled_files))]

(***************************************************************************)
(* Calls of determine_common_aspect_ratio.  The argument is sampled_files: *)
(* image_files itself, or 20 of its files in the random order of           *)
(* random.sample.                                                          *)
(***************************************************************************)
\* The ratios of the files in lists of several files.
SomeRatios == {100, 133, 178}

\* One decodable file of any ratio up to MaxRatio hundredths, or up to
\* MaxSampled files of a few ratios, decodable or not.
SampledLists ==
    {<<k>> : k \in 1..MaxRatio}
    \cup UNION {[1..n -> {None} \cup SomeRatios] : n \in 0..MaxSampled}
    \cup {<<133, 133, 178, 133, 100>>}

InitRatio ==
    /\ fn = "determine_common_aspect_ratio"
    /\ pc = "call"
    /\ args \in [sampled_files : SampledLists]
    /\ ret = None

\* The call returns.
DetermineCommonAspectRatio ==
    /\ fn = "determine_common_aspect_ratio"
    /\ pc = "call"
    /\ Len(DecodedRatios(args.sampled_files)) > 0
    /\ ret' = determine_common_aspect_ratio(args.sampled_files)
    /\ pc' = "return"
    /\ UNCHANGED <<fn, args>>

\* The call ends the process: sys.exit(1).
NoValidImages ==
    /\ fn = "determine_common_aspect_ratio"
    /\ pc = "call"
    /\ Len(DecodedRatios(args.sampled_files)) = 0
    /\ ret' = determine_common_aspect_ratio(args.sampled_files)
    /\ pc' = "exit"
    /\ UNCHANGED <<fn, args>>

NextRatio == DetermineCommonAspectRatio \/ NoValidImages

SpecRatio == InitRatio /\ [][NextRatio]_vars

(***************************************************************************)
(* rendering.py and layout.py: the canvas, the title band and the grid.    *)
(* An image is its size <<w, h>> in pixels, or Unreadable when it cannot   *)
(* be opened.  A title is None or its number of characters; text_height is *)
(* the height of the box that the font library measures for it.            *)
(***************************************************************************)
\* A file for which Image.open raises.
Unreadable == << >>

\* The padding above and below the title.
TitlePadding == 20

\* calculate_title_space without the room for the border.
calculate_title_space_no_border(text_height, border_width) ==
    text_height + 2 * TitlePadding

\* total_height = text_height + (2 * padding) + (2 * border_width)
calculate_title_space(text_height, border_width) ==
    text_height + 2 * TitlePadding + 2 * border_width

\* Image.new raises ValueError for a negative width or height.  With a
\* title band the full canvas is asked for first and is at least as high
\* as the collage canvas, so one of the two is rejected exactly when
\* canvas_width or canvas_height is negative.
CanvasRaises(canvas_width, canvas_height) ==
    canvas_width < 0 \/ canvas_height < 0

\* The sizes of final_canvas and collage_canvas, and title_offset; the
\* exception when the image library rejects the size of a canvas.
setup_canvas_with_title(canvas_width, canvas_height, title_text, title_margin, text_height, title_border) ==
    LET title_space_height ==
            IF Truthy(title_text) /\ title_margin
            THEN calculate_title_space(text_height, title_border)
            ELSE 0
    IN IF CanvasRaises(canvas_width, canvas_height)
       THEN [raises |-> "ValueError"]
       ELSE IF title_space_height > 0
       THEN [final_canvas |-> <<canvas_width,
                                canvas_height + title_space_height>>,
             collage_canvas |-> <<canvas_width, canvas_height>>,
             title_offset |-> title_space_height]
       ELSE [final_canvas |-> <<canvas_width, canvas_height>>,
             collage_canvas |-> <<canvas_width, canvas_height>>,
             title_offset |-> 0]

\* Whether x > y for a float x > 0 and any float y.
FGreaterPos(x, y) == y.s = -1 \/ FLess[y, x]

\* The size of the resized image inside its cell (cell_height nonzero).
FittedSize[img_ratio \in Float, cell_ratio \in Float, cell_width \in Int, cell_height \in Int] ==
    IF FGreaterPos(img_ratio, cell_ratio)
    THEN [new_width |-> cell_width,
          new_height |-> FTrunc[FDiv[FromInt[cell_width], img_ratio]]]
    ELSE [new_width |-> FTrunc[FMul[FromInt[cell_height], img_ratio]],
          new_height |-> cell_height]

\* fit_image_preserve_aspect raises: a division by zero for cell_height 0,
\* and the image library rejects a resize to less than one pixel and a new
\* image of negative size.
FitRaises(img, cell_width, cell_height) ==
    \/ cell_height = 0
    \/ cell_width < 0
    \/ cell_height < 0
    \/ LET new == FittedSize[FDiv[FromInt[img[1]], FromInt[img[2]]],
                             FDiv[FromInt[cell_width], FromInt[cell_height]],
                             cell_width, cell_height]
       IN new.new_width < 1 \/ new.new_height < 1

\* Whether the try block of grid_collage raises for an image.
ImageSkipped(img, layout) ==
    img = Unreadable \/ FitRaises(img, layout.cell_width, layout.cell_height)

\* PasteColumn taking the column from the row count.
PasteColumnByRows(idx, layout) == idx % layout.rows

\* col = idx % layout.cols
PasteColumn(idx, layout) == idx % layout.cols

\* row = idx // layout.cols
PasteRow(idx, layout) == idx \div layout.cols

PasteX(idx, layout) ==
    PasteColumn(idx, layout) * (layout.cell_width + layout.padding)
    + layout.padding + layout.offset_x

PasteY(idx, layout) ==
    PasteRow(idx, layout) * (layout.cell_height + layout.padding)
    + layout.padding + layout.offset_y

\* The paste of the image at position image of the list, for the loop
\* index idx: its cell on the collage canvas.
Paste(image, idx, layout) ==
    [image |-> image, x |-> PasteX(idx, layout), y |-> PasteY(idx, layout),
     width |-> layout.cell_width, height |-> layout.cell_height]

\* enumerate: the loop index after idx, whether or not the image was skipped.
NextSlot(idx) == idx + 1

RECURSIVE GridCollageFrom(_, _, _, _, _)
\* The loop of grid_collage from the i-th image on, idx being the loop
\* index of that image: the pastes made, in order.
GridCollageFrom(images, layout, i, idx, pastes) ==
    IF i > Len(images) THEN pastes
    ELSE GridCollageFrom(images, layout, i + 1,
             NextSlot(idx),
             IF ImageSkipped(images[i], layout)
             THEN pastes
             ELSE Append(pastes, Paste(i - 1, idx, layout)))

\* The pastes that grid_collage makes on the collage canvas.
grid_collage(images, layout) == GridCollageFrom(images, layout, 1, 0, << >>)

\* A paste of the collage canvas as it lands on the final canvas.
Shifted(paste, title_offset) == [paste EXCEPT !.y = @ + title_offset]

\* The returned canvas: its size and the cells pasted on it; the exception
\* of setup_canvas_with_title is not caught.
create_collage_canvas(image_files, layout, title_text, title_margin, text_height, title_border) ==
    LET c == setup_canvas_with_title(layout.canvas_width,
                                     layout.canvas_height, title_text,
                                     title_margin, text_height, title_border)
        pastes == grid_collage(image_files, layout)
    IN IF CanvasRaises(layout.canvas_width, layout.canvas_height)
       THEN c
       ELSE [width |-> c.final_canvas[1],
             height |-> c.final_canvas[2],
             pastes |-> [i \in 1..Len(pastes) |->
                            Shifted(pastes[i], c.title_offset)]]

(***************************************************************************)
(* cli.py: main, the layout for the files it keeps.                        *)
(***************************************************************************)
\* The layout for the files that main keeps, given what
\* apply_image_sampling and determine_common_aspect_ratio returned.
MainLayout(sampling, common, padding, size, width, height, columns, max_rows) ==
    [image_files |-> sampling.image_files,
     is_sampled |-> sampling.is_sampled,
     total_image_count |-> sampling.total_count,
     layout |-> calculate_grid_layout(Len(sampling.image_files),
                                      common.most_common_ratio, padding,
                                      size, width, height, columns, max_rows)]

(***************************************************************************)
(* Calls of create_collage_canvas as main makes them: the files of a       *)
(* folder of which at least one decodes, and the layout computed for their *)
(* number and their most common rounded ratio.                             *)
(***************************************************************************)
\* Files that cannot be opened, square images, wide and tall strips.
Images == {Unreadable, <<1, 1>>, <<5, 1>>, <<1, 5>>}

ImageLists == UNION {[1..n -> Images] : n \in 1..MaxPasted}

\* What determine_common_aspect_ratio reads of the files: None for a file
\* that get_aspect_ratio cannot open, else its rounded ratio.
FileRatios(image_files) ==
    [i \in 1..Len(image_files) |->
        IF image_files[i] = Unreadable THEN None
        ELSE RoundedRatio(image_files[i])]

\* The files and the layouts that main passes to create_collage_canvas for
\* the files of a folder, over the options of the command line (no
\* max_rows, size left at its default).
MainCanvasCalls(image_files) ==
    {MainLayout(apply_image_sampling(image_files, columns, None), common,
                padding, None, width, None, columns, None) :
        common \in {determine_common_aspect_ratio(FileRatios(image_files))},
        padding \in 0..1,
        width \in {None, 1, DimStep, 2 * DimStep},
        columns \in {None, 2}}

\* The calls of main for the folders of which some file decodes; main
\* exits before the call when none does.
CanvasCalls ==
    UNION {MainCanvasCalls(image_files) :
              image_files \in {l \in ImageLists :
                                  Len(DecodedRatios(FileRatios(l))) > 0}}

CanvasArgs ==
    UNION {[image_files : {call.image_files},
            layout : {call.layout},
            title_text : {None, 0, 5},
            title_margin : BOOLEAN,
            text_height : 0..MaxTextHeight,
            title_border : 0..MaxTitleBorder] : call \in CanvasCalls}

InitCanvas ==
    /\ fn = "create_collage_canvas"
    /\ pc = "call"
    /\ args \in CanvasArgs
    /\ ret = None

\* The call returns the canvas.
CreateCollageCanvas ==
    /\ fn = "create_collage_canvas"
    /\ pc = "call"
    /\ ~CanvasRaises(args.layout.canvas_width, args.layout.canvas_height)
    /\ ret' = create_collage_canvas(args.image_files, args.layout,
                                    args.title_text, args.title_margin,
                                    args.text_height, args.title_border)
    /\ pc' = "return"
    /\ UNCHANGED <<fn, args>>

\* The call ends with the exception of Image.new.
CanvasSizeRejected ==
    /\ fn = "create_collage_canvas"
    /\ pc = "call"
    /\ CanvasRaises(args.layout.canvas_width, args.layout.canvas_height)
    /\ ret' = create_collage_canvas(args.image_files, args.layout,
                                    args.title_text, args.title_margin,
                                    args.text_height, args.title_border)
    /\ pc' = "raise"
    /\ UNCHANGED <<fn, args>>

NextCanvas == CreateCollageCanvas \/ CanvasSizeRejected

SpecCanvas == InitCanvas /\ [][NextCanvas]_vars

(***************************************************************************)
(* cli.py: main, from the image list to the layout.  Every file of a run   *)
(* decodes and has the same rounded ratio, args.ratio hundredths.          *)
(***************************************************************************)
\* get_image_files found at least one file, else main exits.
MainArgs ==
    [image_files : FileLists \ {ImageFiles(0)},
     ratio : {60, 100, 150},
     padding : 0..1,
     size : {None},
     width : {None, 2 * DimStep},
     height : {None, DimStep},
     columns : {None} \cup 1..MaxColumns,
     max_rows : {None} \cup 1..MaxRows]

InitMain ==
    /\ fn = "main"
    /\ pc = "call"
    /\ args \in MainArgs
    /\ ret = None

\* main up to the layout: sample, estimate the ratio of the files kept,
\* compute the layout for their number.
Main ==
    /\ fn = "main"
    /\ pc = "call"
    /\ \E sampling \in {apply_image_sampling(args.image_files, args.columns,
                                              args.max_rows)} :
       \E common \in {determine_common_aspect_ratio(
                          [i \in 1..Len(sampling.image_files) |->
                              args.ratio])} :
           ret' = MainLayout(sampling, common, args.padding, args.size,
                             args.width, args.height, args.columns,
                             args.max_rows)
    /\ pc' = "return"
    /\ UNCHANGED <<fn, args>>

NextMain == Main

SpecMain == InitMain /\ [][NextMain]_vars

(***************************************************************************)
(* Properties of calculate_grid_layout.                                    *)
(***************************************************************************)
LayoutReturned == fn = "calculate_grid_layout" /\ pc = "return"

\* max_rows caps the rows below what the images need.
RowsCapped ==
    /\ Truthy(args.columns)
    /\ Truthy(args.max_rows)
    /\ args.num_images > args.columns * args.max_rows

\* C1 as stated: for every combination of the optional constraints the
\* returned grid has at least num_images cells, cols * rows >= num_images.
C1_GridHoldsImages ==
    LayoutReturned => ret.cols * ret.rows >= args.num_images

\* C1 amended: the returned grid has at least num_images cells unless
\* columns and max_rows are both given with num_images > columns * max_rows;
\* then the grid is columns x max_rows and has fewer cells than images.
C1_GridHoldsImagesUnlessCapped ==
    LayoutReturned =>
        IF RowsCapped
        THEN /\ ret.cols = args.columns
             /\ ret.rows = args.max_rows
             /\ ret.cols * ret.rows < args.num_images
        ELSE ret.cols * ret.rows >= args.num_images

\* Five images in three columns with room for two rows: a 3 x 2 grid.
C1_Witness ==
    /\ LayoutReturned
    /\ args.num_images = 5
    /\ args.columns = 3
    /\ args.max_rows = 2
    /\ ret.cols * ret.rows = 6

\* C2: when height is not given, the returned canvas_height is exactly
\* rows * cell_height + (rows + 1) * padding, in every branch.
C2_HeightFitsGrid ==
    LayoutReturned /\ args.height = None =>
        ret.canvas_height
            = ret.rows * ret.cell_height + (ret.rows + 1) * ret.padding

\* The example: step 2 sets the height to int(1000 / 2.0) = 500, step 4 to
\* 3 * 158 + 4 * 10 = 514.
C2_Witness ==
    /\ LayoutReturned
    /\ args = ExampleArgs
    /\ ret.cell_height = 158
    /\ ret.canvas_height = 514

\* C3: a canvas dimension given by the caller is returned unaltered:
\* canvas_width = width when width is given, canvas_height = height when
\* height is given (both, when both are given).
C3_GivenDimsVerbatim ==
    LayoutReturned =>
        /\ args.width # None => ret.canvas_width = args.width
        /\ args.height # None => ret.canvas_height = args.height

\* Both dimensions given, and the given height is not the height of the grid.
C3_Witness ==
    /\ LayoutReturned
    /\ args.width # None
    /\ args.height # None
    /\ ret.canvas_width = args.width
    /\ ret.canvas_height = args.height
    /\ ret.canvas_height
           # ret.rows * ret.cell_height + (ret.rows + 1) * ret.padding

\* C7 as stated: a returned layout never has cell_width or cell_height
\* below 1 (the degenerate case is an error, not a returned layout).
C7_CellsPositive ==
    LayoutReturned => ret.cell_width >= 1 /\ ret.cell_height >= 1

\* C9: when columns is given, the returned cols equals columns in every
\* branch; the orientation swap never applies to it.
C9_ColumnsKept ==
    LayoutReturned /\ args.columns # None => ret.cols = args.columns

\* Five images in three columns of ratio 0.6, sized from size: the grid's
\* aspect ratio 0.9 disagrees with 3 x 2, and the grid stays 3 x 2.
C9_Witness ==
    /\ LayoutReturned
    /\ args.columns = 3
    /\ args.max_rows = None
    /\ args.num_images = 5
    /\ args.aspect_ratio = <<3, 5>>
    /\ args.width = None
    /\ args.height = None
    /\ ret.cols = 3
    /\ ret.rows = 2

\* Neither width, height nor columns given.
AutoMode ==
    args.width = None /\ args.height = None /\ args.columns = None

\* C10: in auto mode with positive cell dimensions the grid is
\* ceil(sqrt(n)) by ceil(n / ceil(sqrt(n))), possibly swapped, and neither
\* canvas dimension exceeds size (1920 when size is not given); the example
\* n = 10, size = 1000, padding = 10, ratio 1.5 gives a 4 x 3 grid.
C10_AutoGridWithinSize ==
    LayoutReturned /\ AutoMode /\ ret.cell_width >= 1 /\ ret.cell_height >= 1
    =>
        LET n == args.num_images
            size == IF args.size = None THEN DefaultSize ELSE args.size
            c0 == CHOOSE c \in 1..n : c * c >= n /\ (c - 1) * (c - 1) < n
            r0 == (n + c0 - 1) \div c0
        IN /\ \/ ret.cols = c0 /\ ret.rows = r0
              \/ ret.cols = r0 /\ ret.rows = c0
           /\ ret.canvas_width <= size
           /\ ret.canvas_height <= size
           /\ args = ExampleArgs => ret.cols = 4 /\ ret.rows = 3

\* A portrait ratio turns the initial 3 x 2 grid into 2 x 3.
C10_Witness ==
    /\ LayoutReturned
    /\ AutoMode
    /\ args.size = 3 * DimStep
    /\ args.num_images = 5
    /\ ret.cols = 2
    /\ ret.rows = 3
    /\ ret.cell_width >= 1
    /\ ret.cell_height >= 1
    /\ ret.canvas_height <= args.size

(***************************************************************************)
(* Properties of sample_images and apply_image_sampling.                   *)
(***************************************************************************)
SampleReturned == fn = "sample_images" /\ pc = "return"

\* len(images) > k >= 2
SamplingCase ==
    /\ Len(args.image_files) > args.max_count
    /\ args.max_count >= 2

\* C4: for len(images) > k >= 2, sample_images returns exactly k items.
C4_ExactlyKItems ==
    SampleReturned /\ SamplingCase => Len(ret) = args.max_count

\* Six images sampled down to five: indices 0, 1, 2, 4, 5.
C4_Witness ==
    /\ SampleReturned
    /\ Len(args.image_files) = 6
    /\ args.max_count = 5
    /\ ret = <<100, 101, 102, 104, 105>>

\* C5: for len(images) > k >= 2, the result starts with images[0] and ends
\* with images[-1].
C5_FirstAndLast ==
    SampleReturned /\ SamplingCase =>
        /\ ret[1] = args.image_files[1]
        /\ ret[Len(ret)] = args.image_files[Len(args.image_files)]

\* The smallest cap: two of many images are the first and the last.
C5_Witness ==
    /\ SampleReturned
    /\ Len(args.image_files) = MaxFiles
    /\ args.max_count = 2
    /\ ret = <<100, 99 + MaxFiles>>

\* C6: sample_images returns the list unchanged whenever
\* len(images) <= k, for every k, k < 2 included.
C6_NoOpWithinCap ==
    SampleReturned /\ Len(args.image_files) <= args.max_count =>
        ret = args.image_files

\* Three images with a cap of five.
C6_Witness ==
    /\ SampleReturned
    /\ Len(args.image_files) = 3
    /\ args.max_count = 5
    /\ ret = <<100, 101, 102>>

PolicyReturned == fn = "apply_image_sampling" /\ pc = "return"

\* Both columns and max_rows given and more images than columns * max_rows.
OverCapacity ==
    /\ args.columns # None
    /\ args.max_rows # None
    /\ Len(args.image_files) > args.columns * args.max_rows

\* C8: apply_image_sampling shortens the list (is_sampled = true) if and
\* only if columns and max_rows are both given and
\* len(images) > columns * max_rows; otherwise the list is returned unchanged
\* with is_sampled = false; total_count is always the original length.
C8_SamplingPolicy ==
    PolicyReturned =>
        /\ ret.total_count = Len(args.image_files)
        /\ IF OverCapacity
           THEN /\ ret.is_sampled
                /\ Len(ret.image_files) < Len(args.image_files)
           ELSE /\ ~ret.is_sampled
                /\ ret.image_files = args.image_files

\* Nine images for a 3 x 2 grid are sampled down to six.
C8_Witness ==
    /\ PolicyReturned
    /\ Len(args.image_files) = 9
    /\ args.columns = 3
    /\ args.max_rows = 2
    /\ ret.is_sampled
    /\ Len(ret.image_files) = 6
    /\ ret.total_count = 9

(***************************************************************************)
(* Further properties of calculate_grid_layout.                            *)
(***************************************************************************)
\* cols * cell_width + (cols + 1) * padding
GridWidth(layout) ==
    layout.cols * layout.cell_width + (layout.cols + 1) * layout.padding

\* C11 as stated: wherever width is not given (height-only branch, size
\* branch with or without columns) the returned canvas_width equals
\* cols * cell_width + (cols + 1) * padding.
C11_WidthFitsGrid ==
    LayoutReturned /\ args.width = None => ret.canvas_width = GridWidth(ret)

\* C11 amended: the equality holds in the height-only branch; in the size
\* branches canvas_width comes from size and cell_width is rounded down, so
\* the grid is at most cols - 1 pixels narrower than the canvas.
C11_WidthFitsGridUpToRounding ==
    LayoutReturned /\ args.width = None =>
        IF args.height # None
        THEN ret.canvas_width = GridWidth(ret)
        ELSE /\ GridWidth(ret) <= ret.canvas_width
             /\ ret.canvas_width < GridWidth(ret) + ret.cols

\* Height only, with cells that exist and padding between them.
C11_Witness ==
    /\ LayoutReturned
    /\ args.width = None
    /\ args.height = 3 * DimStep
    /\ args.padding = 1
    /\ ret.cols = 3
    /\ ret.cell_width >= 1
    /\ ret.cell_height >= 1
    /\ ret.canvas_width = 3 * ret.cell_width + 4

\* C14: in auto mode (no columns, width or height) the returned grid never
\* disagrees with its aspect ratio g = (cols / rows) * aspect_ratio, neither
\* g > 1 with cols < rows nor g < 1 with cols > rows, for g as the code
\* computes it and for the exact quotient; the swap keeps cols * rows.
C14_OrientationAgrees ==
    LayoutReturned /\ AutoMode =>
        LET g == GridAspectRatio(ret.cols, ret.rows,
                                 FloatOf(args.aspect_ratio))
            num == ret.cols * args.aspect_ratio[1]
            den == ret.rows * args.aspect_ratio[2]
            c0 == CeilSqrt(args.num_images)
            r0 == (args.num_images + c0 - 1) \div c0
        IN /\ ~(FLess[FromInt[1], g] /\ ret.cols < ret.rows)
           /\ ~(FLess[g, FromInt[1]] /\ ret.cols > ret.rows)
           /\ ~(num > den /\ ret.cols < ret.rows)
           /\ ~(num < den /\ ret.cols > ret.rows)
           /\ ret.cols * ret.rows = c0 * r0

\* Five portrait images at the default size: the 3 x 2 guess has g = 0.9
\* and is swapped to 2 x 3.
C14_Witness ==
    /\ LayoutReturned
    /\ AutoMode
    /\ args.size = None
    /\ args.num_images = 5
    /\ args.aspect_ratio = <<3, 5>>
    /\ ret.cols = 2
    /\ ret.rows = 3

\* C17: for max_count 0 or 1 and more images than that, sample_images
\* returns exactly the first max_count images: nothing for 0, and for 1 the
\* first image without the last one.
C17_DegenerateCount ==
    SampleReturned /\ args.max_count \in {0, 1}
    /\ Len(args.image_files) > args.max_count =>
        /\ Len(ret) = args.max_count
        /\ \A i \in 1..Len(ret) :
               /\ ret[i] = args.image_files[i]
               /\ ret[i] # args.image_files[Len(args.image_files)]

\* Five images with a cap of one: only the first.
C17_Witness ==
    /\ SampleReturned
    /\ Len(args.image_files) = 5
    /\ args.max_count = 1
    /\ ret = <<100>>

\* The index in image_files of a path of the list (paths are 100, 101, ...).
IndexOf(path) == path - 100

\* C18: for n > k >= 2 the selected indices are strictly increasing (the
\* original order, no index twice), the interior ones lie in [1, n - 2],
\* and the clamp idx < n - 1 discards none of the k - 2 indices computed
\* as int(1 + i * step + step / 2) with step = (n - 2) / (k - 2).
C18_IndicesIncrease ==
    SampleReturned /\ SamplingCase =>
        LET n == Len(args.image_files)
            k == args.max_count
        IN /\ \A j \in 1..(Len(ret) - 1) :
                  IndexOf(ret[j]) < IndexOf(ret[j + 1])
           /\ \A j \in 2..(Len(ret) - 1) :
                  IndexOf(ret[j]) >= 1 /\ IndexOf(ret[j]) <= n - 2
           /\ Len(ret) = k
           /\ k > 2 =>
                  \A i \in 0..(k - 3) :
                      LET idx == MiddleIndex(i, FDiv[FromInt[n - 2],
                                                     FromInt[k - 2]])
                      IN /\ idx < n - 1
                         /\ ret[i + 2] = args.image_files[idx + 1]

\* Ten images sampled down to eight: indices 0, 1, 2, 4, 5, 7, 8, 9.
C18_Witness ==
    /\ SampleReturned
    /\ Len(args.image_files) = 10
    /\ args.max_count = 8
    /\ ret = <<100, 101, 102, 104, 105, 107, 108, 109>>

\* The returned cells are positive and the grid has a cell for every image.
CellsForAllImages ==
    /\ ret.cell_width >= 1
    /\ ret.cell_height >= 1
    /\ args.num_images <= ret.cols * ret.rows

\* The cell that grid_collage pastes for image i ends within the width of
\* the canvas.
WithinWidth(i) ==
    (i % ret.cols) * (ret.cell_width + ret.padding) + ret.padding
    + ret.offset_x + ret.cell_width <= ret.canvas_width

\* The cell that grid_collage pastes for image i ends within the height of
\* the canvas.
WithinHeight(i) ==
    (i \div ret.cols) * (ret.cell_height + ret.padding) + ret.padding
    + ret.offset_y + ret.cell_height <= ret.canvas_height

\* C20 as stated: for a returned layout with positive cells and
\* n <= cols * rows every pasted cell lies inside the canvas,
\* x + cell_width <= canvas_width and y + cell_height <= canvas_height for
\* every i < n, in every branch, width and height both given included.
C20_CellsInsideCanvas ==
    LayoutReturned /\ CellsForAllImages =>
        \A i \in 0..(args.num_images - 1) : WithinWidth(i) /\ WithinHeight(i)

\* C20 amended: every pasted cell lies within the width of the canvas in
\* every branch, and within its height in every branch except width and
\* height both given.
C20_CellsInsideCanvasUnlessBothGiven ==
    LayoutReturned /\ CellsForAllImages =>
        \A i \in 0..(args.num_images - 1) :
            /\ WithinWidth(i)
            /\ ~(Truthy(args.width) /\ Truthy(args.height)) => WithinHeight(i)

\* Height only, four images in a full 2 x 2 grid with padding: the last
\* cell ends above the bottom edge of the given height.
C20_Witness ==
    /\ LayoutReturned
    /\ CellsForAllImages
    /\ args.width = None
    /\ args.height = 3 * DimStep
    /\ args.num_images = 4
    /\ args.padding = 1
    /\ ret.cols = 2
    /\ ret.rows = 2
    /\ ret.cell_height + ret.padding + ret.padding + ret.cell_height
           + ret.padding <= ret.canvas_height

\* Height given, width not.
HeightOnly == ~Truthy(args.width) /\ Truthy(args.height)

\* The cell height of step 2 in the height-only branch:
\* (height - (rows + 1) * padding) div rows.
Step2CellHeight == (args.height - (ret.rows + 1) * ret.padding) \div ret.rows

\* C21: in the height-only branch with positive cell dimensions the final
\* grid never overflows the given height,
\* rows * cell_height + (rows + 1) * padding <= canvas_height, the final
\* cell_width is the one derived in step 2, int(cell_height * aspect_ratio)
\* of the step-2 cell_height, and the final cell_height is never larger
\* than the step-2 value (height - (rows + 1) * padding) div rows.
C21_HeightOnlyGridFits ==
    LayoutReturned /\ HeightOnly /\ ret.cell_width >= 1 /\ ret.cell_height >= 1
    =>
        /\ ret.canvas_height = args.height
        /\ ret.rows * ret.cell_height + (ret.rows + 1) * ret.padding
               <= ret.canvas_height
        /\ ret.cell_width
               = FTrunc[FMul[FromInt[Step2CellHeight],
                             FloatOf(args.aspect_ratio)]]
        /\ ret.cell_height <= Step2CellHeight

\* One row of height 21 and ratio 1.33: step 2 has cell_height 21 and
\* cell_width int(27.93) = 27, step 3 keeps 27 and lowers cell_height to
\* int(27 / 1.33) = 20, one pixel short of the given height.
C21_Witness ==
    /\ LayoutReturned
    /\ HeightOnly
    /\ args.height = 3 * DimStep
    /\ args.padding = 0
    /\ args.aspect_ratio = <<133, 100>>
    /\ ret.rows = 1
    /\ Step2CellHeight = 21
    /\ ret.cell_width = 27
    /\ ret.cell_height = 20
    /\ ret.canvas_height = 21

AutoGridGuessed == fn = "auto_grid" /\ pc = "guess"

AutoGridAdjusted == fn = "auto_grid" /\ pc = "adjusted"

\* C22: the initial auto grid, cols = ceil(sqrt(n)) and rows = ceil(n / cols),
\* has cols >= rows for every n >= 1, so the first swap condition (grid
\* ratio > 1 and cols < rows) is never satisfied; only the portrait swap
\* (grid ratio < 1 and cols > rows) fires, and after it the recomputed grid
\* ratio is still < 1.
C22_OnlyPortraitSwap ==
    LET ar == FloatOf(args.aspect_ratio)
        one == FromInt[1]
        guess == GridGuess(FromWide(args.num_images))
    IN /\ AutoGridGuessed =>
              /\ ret.cols >= ret.rows
              /\ ~(FLess[one, GridAspectRatio(ret.cols, ret.rows, ar)]
                    /\ ret.cols < ret.rows)
       /\ AutoGridAdjusted /\ <<ret.cols, ret.rows>> # <<guess.cols, guess.rows>>
          =>
              /\ ret.cols = guess.rows
              /\ ret.rows = guess.cols
              /\ guess.cols > guess.rows
              /\ FLess[GridAspectRatio(guess.cols, guess.rows, ar), one]
              /\ FLess[ret.grid_aspect_ratio, one]

(***************************************************************************)
(* Properties of determine_common_aspect_ratio.                            *)
(***************************************************************************)
RatioCallEnded == fn = "determine_common_aspect_ratio" /\ pc # "call"

\* The position of the first occurrence of k in a list that contains it.
FirstIndex(aspect_ratios, k) ==
    CHOOSE i \in 1..Len(aspect_ratios) :
        aspect_ratios[i] = k /\ \A j \in 1..(i - 1) : aspect_ratios[j] # k

\* The least distance, in hundredths, from m to a key of the table.
NearestDistance(m) ==
    CHOOSE d \in 0..(m + 178) :
        /\ \E i \in 1..Len(CommonRatios) : Abs(CommonRatios[i].key - m) = d
        /\ \A i \in 1..Len(CommonRatios) : Abs(CommonRatios[i].key - m) >= d

\* C12 as stated: with the 2-decimal ratios of the files that decode (the
\* others are skipped), the call is a fatal error when there is none;
\* otherwise it returns the most frequent ratio, the one met first among
\* equally frequent ones, with the pair of a nearest table entry when the
\* ratio is less than 0.1 away from it and the pair (ratio, 1) otherwise;
\* [1.33, 1.33, 1.78, 1.33, 1.00] gives 1.33 and (4, 3).
C12_ModalRatioSnapped ==
    RatioCallEnded =>
        LET ratios == DecodedRatios(args.sampled_files)
        IN IF Len(ratios) = 0 THEN pc = "exit"
           ELSE LET m == ret.most_common_ratio[1]
                    d == NearestDistance(m)
                IN /\ pc = "return"
                   /\ ret.most_common_ratio = Ratio(m)
                   /\ \E i \in 1..Len(ratios) : ratios[i] = m
                   /\ \A i \in 1..Len(ratios) :
                          \/ Count(ratios, ratios[i]) < Count(ratios, m)
                          \/ /\ Count(ratios, ratios[i]) = Count(ratios, m)
                             /\ FirstIndex(ratios, m)
                                    <= FirstIndex(ratios, ratios[i])
                   /\ IF d < 10
                      THEN \E i \in 1..Len(CommonRatios) :
                               /\ Abs(CommonRatios[i].key - m) = d
                               /\ ret.width_ratio
                                      = <<CommonRatios[i].pair[1], 1>>
                               /\ ret.height_ratio
                                      = <<CommonRatios[i].pair[2], 1>>
                      ELSE /\ ret.width_ratio = Ratio(m)
                           /\ ret.height_ratio = <<1, 1>>
                   /\ args.sampled_files = <<133, 133, 178, 133, 100>> =>
                          /\ m = 133
                          /\ ret.width_ratio = <<4, 1>>
                          /\ ret.height_ratio = <<3, 1>>

(***************************************************************************)
(* Properties of create_collage_canvas and grid_collage.                   *)
(***************************************************************************)
CanvasReturned == fn = "create_collage_canvas" /\ pc = "return"

\* The run with the same arguments and no title.
NoTitleRun ==
    create_collage_canvas(args.image_files, args.layout, None,
                          args.title_margin, args.text_height,
                          args.title_border)

\* C13: with a title and title_margin the final canvas is higher than the
\* canvas of the run without title by exactly the band height, text height
\* + 40 + 2 * title_border, it is as wide, and every cell lies lower by the
\* band height; without a title or without title_margin the final canvas
\* has the size of the layout's canvas.
C13_TitleBandGrowsCanvas ==
    CanvasReturned =>
        LET band == args.text_height + 40 + 2 * args.title_border
        IN IF args.title_text # None /\ args.title_text > 0
              /\ args.title_margin
           THEN /\ ret.height > NoTitleRun.height
                /\ ret.height = NoTitleRun.height + band
                /\ ret.width = NoTitleRun.width
                /\ Len(ret.pastes) = Len(NoTitleRun.pastes)
                /\ \A i \in 1..Len(ret.pastes) :
                       /\ ret.pastes[i].x = NoTitleRun.pastes[i].x
                       /\ ret.pastes[i].y = NoTitleRun.pastes[i].y + band
           ELSE /\ ret.width = args.layout.canvas_width
                /\ ret.height = args.layout.canvas_height

\* A title of text height 2 with border 1 reserves a band of 44 pixels.
C13_Witness ==
    /\ CanvasReturned
    /\ args.title_text = 5
    /\ args.title_margin
    /\ args.text_height = 2
    /\ args.title_border = 1
    /\ ret.height = args.layout.canvas_height + 44
    /\ Len(ret.pastes) >= 2
    /\ ret.pastes[1].y = args.layout.padding + 44

\* The height of the title band above the grid.
Band == ret.height - args.layout.canvas_height

\* Two cells of the layout's size at (x1, y1) and (x2, y2) do not overlap.
Disjoint(x1, y1, x2, y2, layout) ==
    \/ x1 + layout.cell_width <= x2
    \/ x2 + layout.cell_width <= x1
    \/ y1 + layout.cell_height <= y2
    \/ y2 + layout.cell_height <= y1

\* C15: image number i (0-based) is pasted at
\* x = (i mod cols) * (cell_width + padding) + padding + offset_x,
\* y = (i div cols) * (cell_height + padding) + padding + offset_y, and for
\* cell_width, cell_height >= 1 and padding >= 0 the cells of two distinct
\* indices are disjoint.
C15_RowMajorDisjoint ==
    CanvasReturned =>
        LET l == args.layout
            X(i) == (i % l.cols) * (l.cell_width + l.padding) + l.padding
                    + l.offset_x
            Y(i) == (i \div l.cols) * (l.cell_height + l.padding)
                    + l.padding + l.offset_y
            n == Len(args.image_files)
        IN /\ \A k \in 1..Len(ret.pastes) :
                  /\ ret.pastes[k].x = X(ret.pastes[k].image)
                  /\ ret.pastes[k].y - Band = Y(ret.pastes[k].image)
           /\ l.cell_width >= 1 /\ l.cell_height >= 1 /\ l.padding >= 0 =>
                  /\ \A i, j \in 0..(n - 1) :
                         i # j => Disjoint(X(i), Y(i), X(j), Y(j), l)
                  /\ \A j, k \in 1..Len(ret.pastes) :
                         j # k => Disjoint(ret.pastes[j].x, ret.pastes[j].y,
                                           ret.pastes[k].x, ret.pastes[k].y, l)

\* Three square images in two columns without padding: the third one
\* starts the second row, right below the first.
C15_Witness ==
    /\ CanvasReturned
    /\ args.image_files = <<<<1, 1>>, <<1, 1>>, <<1, 1>>>>
    /\ args.layout.cols = 2
    /\ args.layout.padding = 0
    /\ args.title_text = None
    /\ Len(ret.pastes) = 3
    /\ ret.pastes[2].x = args.layout.cell_width
    /\ ret.pastes[2].y = 0
    /\ ret.pastes[3].x = 0
    /\ ret.pastes[3].y = args.layout.cell_height

\* C16 as stated: a file that cannot be decoded does not end the call and
\* does not shift later images: no cell is pasted for it, and every image
\* that decodes is pasted once, in list order, at the cell of its own index.
C16_FailureKeepsSlots ==
    CanvasReturned =>
        LET l == args.layout
            images == args.image_files
            X(i) == (i % l.cols) * (l.cell_width + l.padding) + l.padding
                    + l.offset_x
            Y(i) == (i \div l.cols) * (l.cell_height + l.padding)
                    + l.padding + l.offset_y
        IN /\ \A j \in 1..Len(images) :
                  IF images[j] = Unreadable
                  THEN \A k \in 1..Len(ret.pastes) :
                           ret.pastes[k].image # j - 1
                  ELSE \E k \in 1..Len(ret.pastes) :
                           /\ ret.pastes[k].image = j - 1
                           /\ ret.pastes[k].x = X(j - 1)
                           /\ ret.pastes[k].y - Band = Y(j - 1)
           /\ \A j, k \in 1..Len(ret.pastes) :
                  j < k => ret.pastes[j].image < ret.pastes[k].image

(***************************************************************************)
(* Properties of main.                                                     *)
(***************************************************************************)
MainReturned == fn = "main" /\ pc = "return"

\* C19: the layout computed for the images kept by apply_image_sampling,
\* with the same columns and max_rows, has cols * rows >= the number of
\* images composited, so the row i div cols of every image lies below
\* rows, whatever the original number of images.
C19_GridHoldsSampledImages ==
    MainReturned =>
        /\ ret.layout.cols * ret.layout.rows >= Len(ret.image_files)
        /\ \A i \in 0..(Len(ret.image_files) - 1) :
               i \div ret.layout.cols < ret.layout.rows

\* Ten images for a 3 x 2 grid: six are kept and fill the grid.
C19_Witness ==
    /\ MainReturned
    /\ Len(args.image_files) = 10
    /\ args.columns = 3
    /\ args.max_rows = 2
    /\ ret.is_sampled
    /\ Len(ret.image_files) = 6
    /\ ret.layout.cols = 3
    /\ ret.layout.rows = 2

====
